---- MODULE Spec2Model ----
(***************************************************************************)
(* Execution layer of the narwhal demo ledger                              *)
(* (narwhal/node/src/blockchain.rs): transactions, the balance store       *)
(* State, and the block assembler Block.                                   *)
(*                                                                         *)
(* Widths.  Gas is u32 and Balance is u64 in the source.  TLC's integers   *)
(* are 32-bit signed, so the two unsigned types are modelled as GasBits-   *)
(* and BalanceBits-wide unsigned integers; every arithmetic operation of   *)
(* the source on them is modelled with the same wrap (mod 2^w) or the same *)
(* overflow panic, and the inputs contain the extreme value 2^w - 1.       *)
(*                                                                         *)
(* Arithmetic overflow.  `a + b` and `*e += x` on unsigned integers panic  *)
(* when the crate is built with overflow checks (the default of the dev    *)
(* profile) and wrap otherwise (the default of the release profile).  The  *)
(* variable overflow_checks is chosen in Init and never changes.           *)
(***************************************************************************)
EXTENDS Integers, Sequences, FiniteSets, TLC

\* ---------------------------------------------------------------- bounds
GasBits == 5
BalanceBits == 13
MaxAddress == 2
MaxTxs == 2
MaxBlocks == 1
BlockGasLimit == 4

\* ------------------------------------------------------ program constants
TX_MINT_GAS == 2
TX_TRANSFER_GAS == 2
\* the accounts and the gas limit of the test scenario
ALICE == 1
BOB == 2
ScenarioGasLimit == 20

\* --------------------------------------------------------------- types
GasModulus == 2 ^ GasBits
GasMax == GasModulus - 1
BalanceModulus == 2 ^ BalanceBits
BalanceMax == BalanceModulus - 1

Address == 1 .. MaxAddress
Balance == 0 .. BalanceMax
Gas == 0 .. GasMax

\* The amounts the transactions are drawn from: zero, one, and the largest
\* Balance.
Amounts == {0, 1, BalanceMax}

\* struct Mint; its gas is the constant of the source or the largest Gas
Mint == [type : {"Mint"}, to : Address, amount : Amounts,
         gas : {TX_MINT_GAS, GasMax}]

\* struct Transfer; from = to is allowed; gas as for Mint
Transfer == [type : {"Transfer"}, from : Address, to : Address,
             amount : Amounts, gas : {TX_TRANSFER_GAS, GasMax}]

\* enum Transaction
Transaction == Mint \cup Transfer

\* Transaction::gas
gas(tx) == tx.gas

\* ----------------------------------------------------------------- State
\* State::new : an empty BTreeMap, modelled as a function with empty domain
StateNew == [a \in {} |-> 0]

\* BTreeMap: or_insert(v) on the vacant entry k
MapInsert(balances, k, v) ==
    [a \in (DOMAIN balances) \cup {k} |-> IF a = k THEN v ELSE balances[a]]

\* Credit that stores the amount over the balance it finds
Credit_Overwrites(balances, to, amount, checks) ==
    [panic |-> FALSE, carry |-> FALSE,
     balances |-> MapInsert(balances, to, amount)]

\* self.balances.entry(to).and_modify(|e| *e += amount).or_insert(amount)
\* panic: the addition overflowed in a build with overflow checks, before
\* the store to *e.  carry: the addition wrapped.
Credit(balances, to, amount, checks) ==
    IF to \in DOMAIN balances
    THEN IF balances[to] + amount > BalanceMax /\ checks
         THEN [panic |-> TRUE, carry |-> FALSE, balances |-> balances]
         ELSE [panic |-> FALSE,
               carry |-> balances[to] + amount > BalanceMax,
               balances |-> [balances EXCEPT
                               ![to] = (@ + amount) % BalanceModulus]]
    ELSE [panic |-> FALSE, carry |-> FALSE,
          balances |-> MapInsert(balances, to, amount)]

\* Debit that removes the entry of a sender left with nothing
Debit_RemovesEmpty(balances, from, amount) ==
    [borrow |-> balances[from] < amount,
     balances |-> IF balances[from] = amount
                  THEN [a \in (DOMAIN balances) \ {from} |-> balances[a]]
                  ELSE [balances EXCEPT
                          ![from] = (@ - amount) % BalanceModulus]]

\* sender_entry.insert(current_val - t.amount)
\* borrow: the subtraction went below zero
Debit(balances, from, amount) ==
    [borrow |-> balances[from] < amount,
     balances |-> [balances EXCEPT
                     ![from] = (@ - amount) % BalanceModulus]]

\* State::apply_tx, the Mint arm.  ret is "true" or "false" for the bool
\* returned and "panic" when the call unwinds instead of returning.
ApplyMint(balances, t, checks) ==
    LET c == Credit(balances, t.to, t.amount, checks)
    IN  [ret |-> IF c.panic THEN "panic" ELSE "true",
         balances |-> c.balances, borrow |-> FALSE, carry |-> c.carry]

\* ApplyTransfer with the credit computed from the balance read before the
\* debit
ApplyTransfer_CreditsStale(balances, t, checks) ==
    IF t.from \in DOMAIN balances
    THEN LET current_val == balances[t.from]
         IN  IF current_val < t.amount
             THEN [ret |-> "false", balances |-> balances,
                   borrow |-> FALSE, carry |-> FALSE]
             ELSE LET d == Debit(balances, t.from, t.amount)
                      c == Credit(balances, t.to, t.amount, checks)
                  IN  [ret |-> IF c.panic THEN "panic" ELSE "true",
                       balances |->
                          IF t.from = t.to \/ c.panic THEN c.balances
                          ELSE [c.balances EXCEPT
                                  ![t.from] = d.balances[t.from]],
                       borrow |-> d.borrow, carry |-> c.carry]
    ELSE [ret |-> "false", balances |-> balances,
          borrow |-> FALSE, carry |-> FALSE]

\* ApplyTransfer with a vacant sender entry read as a balance of 0
ApplyTransfer_VacantIsZero(balances, t, checks) ==
    LET current_val == IF t.from \in DOMAIN balances
                       THEN balances[t.from] ELSE 0
    IN  IF current_val < t.amount
        THEN [ret |-> "false", balances |-> balances,
              borrow |-> FALSE, carry |-> FALSE]
        ELSE LET d == Debit(MapInsert(balances, t.from, current_val),
                            t.from, t.amount)
                 c == Credit(d.balances, t.to, t.amount, checks)
             IN  [ret |-> IF c.panic THEN "panic" ELSE "true",
                  balances |-> c.balances,
                  borrow |-> d.borrow, carry |-> c.carry]

\* ApplyTransfer without the check of the sender's balance
ApplyTransfer_NoBalanceCheck(balances, t, checks) ==
    IF t.from \in DOMAIN balances
    THEN LET d == Debit(balances, t.from, t.amount)
             c == Credit(d.balances, t.to, t.amount, checks)
         IN  [ret |-> IF c.panic THEN "panic" ELSE "true",
              balances |-> c.balances,
              borrow |-> d.borrow, carry |-> c.carry]
    ELSE [ret |-> "false", balances |-> balances,
          borrow |-> FALSE, carry |-> FALSE]

\* State::apply_tx, the Transfer arm
ApplyTransfer(balances, t, checks) ==
    IF t.from \in DOMAIN balances
    THEN LET current_val == balances[t.from]
         IN  IF current_val < t.amount
             THEN [ret |-> "false", balances |-> balances,
                   borrow |-> FALSE, carry |-> FALSE]
             ELSE LET d == Debit(balances, t.from, t.amount)
                      c == Credit(d.balances, t.to, t.amount, checks)
                  IN  [ret |-> IF c.panic THEN "panic" ELSE "true",
                       balances |-> c.balances,
                       borrow |-> d.borrow, carry |-> c.carry]
    ELSE [ret |-> "false", balances |-> balances,
          borrow |-> FALSE, carry |-> FALSE]

\* State::apply_tx
apply_tx(balances, tx, checks) ==
    IF tx.type = "Mint"
    THEN ApplyMint(balances, tx, checks)
    ELSE ApplyTransfer(balances, tx, checks)

\* ----------------------------------------------------------------- Block
\* genesis with the gas limit also taken as the gas used
genesis_LimitAsUsed(gas_limit) ==
    [number |-> 0, transactions |-> << >>, state |-> StateNew,
     gas_used |-> gas_limit, gas_limit |-> gas_limit]

\* Block::genesis
genesis(gas_limit) ==
    [number |-> 0, transactions |-> << >>, state |-> StateNew,
     gas_used |-> 0, gas_limit |-> gas_limit]

\* next that skips a block number
next_SkipsNumber(self) ==
    [number |-> self.number + 2, transactions |-> << >>,
     state |-> self.state, gas_used |-> 0, gas_limit |-> self.gas_limit]

\* next that carries the gas used over
next_KeepsGasUsed(self) ==
    [number |-> self.number + 1, transactions |-> << >>,
     state |-> self.state, gas_used |-> self.gas_used,
     gas_limit |-> self.gas_limit]

\* Block::next
next(self) ==
    [number |-> self.number + 1, transactions |-> << >>,
     state |-> self.state, gas_used |-> 0, gas_limit |-> self.gas_limit]

\* Accept that puts the transaction in front of the list
Accept_Prepends(self, tx, r) ==
    [result |-> "Ok", ret |-> r.ret,
     block |-> [self EXCEPT !.state = r.balances,
                            !.gas_used = (@ + gas(tx)) % GasModulus,
                            !.transactions = <<tx>> \o @],
     borrow |-> r.borrow, carry |-> r.carry]

\* Block::try_apply_tx, the arm taken when apply_tx returned true
Accept(self, tx, r) ==
    [result |-> "Ok", ret |-> r.ret,
     block |-> [self EXCEPT !.state = r.balances,
                            !.gas_used = (@ + gas(tx)) % GasModulus,
                            !.transactions = Append(@, tx)],
     borrow |-> r.borrow, carry |-> r.carry]

\* Reject with the gas of the transaction charged all the same
Reject_ChargesGas(self, tx, r) ==
    [result |-> IF r.ret = "panic" THEN "Panic" ELSE "InvalidTransaction",
     ret |-> r.ret,
     block |-> [self EXCEPT !.state = r.balances,
                            !.gas_used = (@ + gas(tx)) % GasModulus],
     borrow |-> r.borrow, carry |-> r.carry]

\* Block::try_apply_tx, the arm taken when apply_tx returned false (or
\* unwound): the block keeps whatever apply_tx left in self.state
Reject(self, tx, r) ==
    [result |-> IF r.ret = "panic" THEN "Panic" ELSE "InvalidTransaction",
     ret |-> r.ret,
     block |-> [self EXCEPT !.state = r.balances],
     borrow |-> r.borrow, carry |-> r.carry]

\* Block::try_apply_tx.  result is "Ok", "GasLimitReached",
\* "InvalidTransaction", or "Panic" when the call unwinds; ret is what
\* State::apply_tx returned ("none" when it was not called).
try_apply_tx(self, tx, checks) ==
    IF self.gas_used + gas(tx) > GasMax /\ checks
    THEN [result |-> "Panic", ret |-> "none", block |-> self,
          borrow |-> FALSE, carry |-> FALSE]
    ELSE IF (self.gas_used + gas(tx)) % GasModulus > self.gas_limit
    THEN [result |-> "GasLimitReached", ret |-> "none", block |-> self,
          borrow |-> FALSE, carry |-> FALSE]
    ELSE LET r == apply_tx(self.state, tx, checks)
         IN  IF r.ret = "true" THEN Accept(self, tx, r)
                               ELSE Reject(self, tx, r)

\* ----------------------------------------------------------------- codec
\* The bounds and inputs of the codec.  TLC's integers end at 2^31 - 1, so
\* the field values are drawn from numbers below 2^31; 16909060 is
\* 0x01020304, a value whose four low bytes all differ.
MaxMsgs == 2
CodecAddress == {1, 16909060}
CodecAmount == {100, 2 ^ 30 + (2 ^ 30 - 1)}
CodecGas == {TX_MINT_GAS, 16909060}
\* the two transactions of the serialisation test
TestMint ==
    [type |-> "Mint", to |-> ALICE, amount |-> 100, gas |-> TX_MINT_GAS]

TestTransfer ==
    [type |-> "Transfer", from |-> ALICE, to |-> BOB, amount |-> 99,
     gas |-> TX_TRANSFER_GAS]

CodecTransaction ==
    [type : {"Mint"}, to : CodecAddress, amount : CodecAmount,
     gas : CodecGas]
    \cup [type : {"Transfer"}, from : CodecAddress, to : CodecAddress,
          amount : CodecAmount, gas : CodecGas]
    \cup {TestMint, TestTransfer}
\* first bytes that are no tag of a Transaction
BadTags == {2, 255}

RECURSIVE BE(_, _)
\* v.to_be_bytes() of an n-byte unsigned integer
BE(v, n) ==
    IF n = 0 THEN << >> ELSE Append(BE(v \div 256, n - 1), v % 256)

RECURSIVE FromBE(_)
\* uN::from_be_bytes
FromBE(bytes) ==
    IF bytes = << >> THEN 0
    ELSE FromBE(SubSeq(bytes, 1, Len(bytes) - 1)) * 256 + bytes[Len(bytes)]

\* BufMut::put_u8, put_u32, put_u64 (big-endian)
put_u8(buf, v) == Append(buf, v)
put_u32(buf, v) == buf \o BE(v, 4)
put_u64(buf, v) == buf \o BE(v, 8)

\* BytesMut::resize(new_len, value): truncate, or pad with value
resize(buf, new_len, value) ==
    IF Len(buf) >= new_len THEN SubSeq(buf, 1, new_len)
    ELSE buf \o [i \in 1 .. (new_len - Len(buf)) |-> value]

\* serialize writing to before from in a Transfer
serialize_SwapsFromTo(tx) ==
    IF tx.type = "Mint"
    THEN resize(put_u32(put_u64(put_u32(put_u8(<< >>, 0), tx.to),
                                tx.amount), tx.gas), 17, 0)
    ELSE resize(put_u32(put_u64(put_u32(put_u32(put_u8(<< >>, 1), tx.to),
                                        tx.from), tx.amount), tx.gas),
                21, 0)

\* serialize in the format without the gas field (13 and 17 bytes)
serialize_NoGas(tx) ==
    IF tx.type = "Mint"
    THEN resize(put_u64(put_u32(put_u8(<< >>, 0), tx.to), tx.amount), 13, 0)
    ELSE resize(put_u64(put_u32(put_u32(put_u8(<< >>, 1), tx.from), tx.to),
                        tx.amount), 17, 0)

\* Transaction::serialize
serialize(tx) ==
    IF tx.type = "Mint"
    THEN resize(put_u32(put_u64(put_u32(put_u8(<< >>, 0), tx.to),
                                tx.amount), tx.gas), 17, 0)
    ELSE resize(put_u32(put_u64(put_u32(put_u32(put_u8(<< >>, 1), tx.from),
                                        tx.to), tx.amount), tx.gas),
                21, 0)

\* advance that drops the whole buffer
advance_All(data, cnt) == << >>

\* Buf::advance(cnt)
advance(data, cnt) == SubSeq(data, cnt + 1, Len(data))

\* Buf::get_u8, get_u32, get_u64: read n bytes big-endian and advance past
\* them; panic when fewer than n bytes remain
get_uint(data, n) ==
    IF Len(data) < n
    THEN [panic |-> TRUE, val |-> 0, rest |-> data]
    ELSE [panic |-> FALSE, val |-> FromBE(SubSeq(data, 1, n)),
          rest |-> advance(data, n)]

\* the value of a transaction that was not decoded
NoTx == [type |-> "None"]

\* what deserialize leaves when it unwinds with the cursor at rest
DecodePanic(rest) == [status |-> "panic", tx |-> NoTx, rest |-> rest]

\* Transaction::deserialize, the arm of tag 0
DeserializeMint(data) ==
    LET to == get_uint(data, 4)
    IN  IF to.panic THEN DecodePanic(to.rest)
        ELSE LET amount == get_uint(to.rest, 8)
             IN  IF amount.panic THEN DecodePanic(amount.rest)
                 ELSE LET g == get_uint(amount.rest, 4)
                      IN  IF g.panic THEN DecodePanic(g.rest)
                          ELSE [status |-> "ok",
                                tx |-> [type |-> "Mint", to |-> to.val,
                                        amount |-> amount.val,
                                        gas |-> g.val],
                                rest |-> g.rest]

\* Transaction::deserialize, the arm of tag 1
DeserializeTransfer(data) ==
    LET from == get_uint(data, 4)
    IN  IF from.panic THEN DecodePanic(from.rest)
        ELSE LET to == get_uint(from.rest, 4)
             IN  IF to.panic THEN DecodePanic(to.rest)
                 ELSE LET amount == get_uint(to.rest, 8)
                      IN  IF amount.panic THEN DecodePanic(amount.rest)
                          ELSE LET g == get_uint(amount.rest, 4)
                               IN  IF g.panic THEN DecodePanic(g.rest)
                                   ELSE [status |-> "ok",
                                         tx |-> [type |-> "Transfer",
                                                 from |-> from.val,
                                                 to |-> to.val,
                                                 amount |-> amount.val,
                                                 gas |-> g.val],
                                         rest |-> g.rest]

\* Transaction::deserialize.  status is "ok" when a Transaction is
\* returned and "panic" when the call unwinds: a read past the end of the
\* buffer, or unreachable!() on a tag other than 0 and 1.
deserialize(data) ==
    LET ttype == get_uint(data, 1)
    IN  IF ttype.panic THEN DecodePanic(ttype.rest)
        ELSE IF ttype.val = 0 THEN DeserializeMint(ttype.rest)
        ELSE IF ttype.val = 1 THEN DeserializeTransfer(ttype.rest)
        ELSE DecodePanic(ttype.rest)

\* ------------------------------------------------------------------ root
\* The width of the digest, u64 in the source, modelled HashBits wide.
HashBits == 4
HashModulus == 2 ^ HashBits

\* #[derive(Hash)] of Transaction: the discriminant, then the fields in
\* the order of their declaration
HashTx(tx) ==
    IF tx.type = "Mint" THEN <<0, tx.to, tx.amount, tx.gas>>
    ELSE <<1, tx.from, tx.to, tx.amount, tx.gas>>

RECURSIVE HashTxSeq(_)
HashTxSeq(txs) ==
    IF txs = << >> THEN << >>
    ELSE HashTx(Head(txs)) \o HashTxSeq(Tail(txs))

\* Hash of Vec<Transaction>: the length, then every element in order
HashTxs(txs) == <<Len(txs)>> \o HashTxSeq(txs)

RECURSIVE HashEntries(_, _)
\* the entries of a BTreeMap in the order of their keys
HashEntries(balances, keys) ==
    IF keys = {} THEN << >>
    ELSE LET k == CHOOSE x \in keys : \A y \in keys : x <= y
         IN  <<k, balances[k]>> \o HashEntries(balances, keys \ {k})

\* #[derive(Hash)] of State, Hash of BTreeMap: the length, then every
\* (key, value) in the order of the keys
HashState(balances) ==
    <<Cardinality(DOMAIN balances)>>
      \o HashEntries(balances, DOMAIN balances)

\* HashInput without the number of the block
HashInput_NoNumber(self) ==
    HashTxs(self.transactions) \o HashState(self.state)
      \o <<self.gas_used>>

\* HashInput with the gas limit of the block written too
HashInput_WithGasLimit(self) ==
    <<self.number>> \o HashTxs(self.transactions) \o HashState(self.state)
      \o <<self.gas_used>> \o <<self.gas_limit>>

\* Block::root, what is written to the hasher: number, transactions,
\* state, gas_used
HashInput(self) ==
    <<self.number>> \o HashTxs(self.transactions) \o HashState(self.state)
      \o <<self.gas_used>>

RECURSIVE Digest(_, _)
\* DefaultHasher::new() ... finish(): a digest of the values written, with
\* keys that are the same in every call.  SipHash is replaced by a
\* multiply-and-add of the same shape: a fixed-width state folded over the
\* input.
Digest(h, input) ==
    IF input = << >> THEN h
    ELSE Digest((h * 31 + Head(input) + 1) % HashModulus, Tail(input))

\* Block::root
root(self) == Digest(0, HashInput(self))

\* ----------------------------------------------------------------- chain
\* Blocks own their State.  To state what a block shares with its parent,
\* the chain keeps every State in a heap and a Block holds a reference.
GasLimits == {BlockGasLimit, GasMax}
\* the blocks a chain holds at most
MaxChain == 3
\* the transactions a chain holds at most, over all its blocks
MaxChainTxs == 2

RECURSIVE ChainTxs(_)
ChainTxs(chain) ==
    IF chain = << >> THEN 0
    ELSE Len(Head(chain).transactions) + ChainTxs(Tail(chain))

\* clone that hands out the reference it was given
clone_state_Shares(heap, ref) == [heap |-> heap, ref |-> ref]

\* State::clone (derived): a new State with a copy of the balances
clone_state(heap, ref) ==
    [heap |-> Append(heap, heap[ref]), ref |-> Len(heap) + 1]

\* ---------------------------------------------------------------- replay
\* Two engines are fed one sequence of calls.  A call is next() or
\* try_apply_tx(tx); the transactions are those of tests::block_creation
\* and two that overflow.
MaxReplay == 5

ScenarioMint ==
    [type |-> "Mint", to |-> ALICE, amount |-> 100, gas |-> TX_MINT_GAS]
ScenarioT1 ==
    [type |-> "Transfer", from |-> ALICE, to |-> BOB, amount |-> 99,
     gas |-> TX_TRANSFER_GAS]
ScenarioT2 ==
    [type |-> "Transfer", from |-> BOB, to |-> ALICE, amount |-> 5,
     gas |-> TX_TRANSFER_GAS]
ScenarioT3 ==
    [type |-> "Transfer", from |-> BOB, to |-> ALICE, amount |-> 5000,
     gas |-> TX_TRANSFER_GAS]

ReplayTransaction ==
    {ScenarioMint, ScenarioT1, ScenarioT2, ScenarioT3,
     [type |-> "Mint", to |-> ALICE, amount |-> BalanceMax,
      gas |-> TX_MINT_GAS],
     [type |-> "Mint", to |-> BOB, amount |-> 1, gas |-> GasMax]}

\* an engine: its block, its build, and what each call returned
ReplayEngine(checks) ==
    [block |-> genesis(ScenarioGasLimit), checks |-> checks, outs |-> << >>]

\* engine.block = engine.block.next()
FeedNext(e) ==
    [e EXCEPT !.block = next(e.block), !.outs = Append(@, "next")]

\* engine.block.try_apply_tx(&tx)
FeedTx(e, tx) ==
    LET r == try_apply_tx(e.block, tx, e.checks)
    IN  [e EXCEPT !.block = r.block, !.outs = Append(@, r.result)]

\* the engine unwound in a panic
Halted(e) == e.outs # << >> /\ e.outs[Len(e.outs)] = "Panic"

\* ---------------------------------------------------------------- driver
\* demo_client.rs, main: the loop that assembles one block per round from
\* the collections of the mempool.
\* command line: --blocks and --rounds-per-block
BlocksToRun == 1
RoundsPerBlock == 1
\* the collections of the mempool, the most of them one response names,
\* and the most transactions one holds
MaxCollections == 2
MaxResponse == 2
MaxCollectionTxs == 2

\* const RE_ADD_TXS with resubmission enabled
RE_ADD_TXS_Enabled == TRUE

\* const RE_ADD_TXS: bool = false
RE_ADD_TXS == FALSE

CollectionIds == 1 .. MaxCollections

\* what node_read_causal answers: collection ids, each at most once
Responses ==
    {ids \in UNION {[1 .. n -> CollectionIds] : n \in 0 .. MaxResponse} :
        \A i, j \in 1 .. Len(ids) : i # j => ids[i] # ids[j]}

\* the transactions the collections are drawn from
DriverTransaction ==
    {[type |-> "Mint", to |-> 1, amount |-> 1, gas |-> TX_MINT_GAS],
     [type |-> "Mint", to |-> 1, amount |-> BalanceMax, gas |-> TX_MINT_GAS],
     [type |-> "Mint", to |-> 2, amount |-> 1, gas |-> GasMax],
     [type |-> "Transfer", from |-> 2, to |-> 1, amount |-> 1,
      gas |-> TX_TRANSFER_GAS],
     [type |-> "Transfer", from |-> 1, to |-> 2, amount |-> 1,
      gas |-> TX_TRANSFER_GAS]}

\* tx.transaction of a TransactionProto: the bytes of a transaction, or
\* bytes that start with a tag that is none
Payloads == {serialize(tx) : tx \in DriverTransaction} \cup {<<2>>}

\* block_proposal_collection_ids.contains(&collection_id), never true
contains_Never(ids, id) == FALSE

\* block_proposal_collection_ids.contains(&collection_id)
contains(ids, id) == \E i \in 1 .. Len(ids) : ids[i] = id

\* the loop body with GasLimitReached not marking the block full
LoopBody_NoFullFlag(st, tx, checks) ==
    IF st.block_full
    THEN [st |-> [st EXCEPT !.gas_overload_txs = Append(@, tx)],
          outcome |-> "Skipped"]
    ELSE LET r == try_apply_tx(st.current_block, tx, checks)
         IN  [st |-> [current_block |-> r.block,
                      block_full |-> st.block_full,
                      failed_txs |->
                          IF r.result = "InvalidTransaction"
                          THEN Append(st.failed_txs, tx)
                          ELSE st.failed_txs,
                      gas_overload_txs |->
                          IF r.result = "GasLimitReached"
                          THEN Append(st.gas_overload_txs, tx)
                          ELSE st.gas_overload_txs],
              outcome |-> r.result]

\* the body of `for tx in decoded_txs`.  st holds current_block,
\* block_full, failed_txs and gas_overload_txs.
LoopBody(st, tx, checks) ==
    IF st.block_full
    THEN [st |-> [st EXCEPT !.gas_overload_txs = Append(@, tx)],
          outcome |-> "Skipped"]
    ELSE LET r == try_apply_tx(st.current_block, tx, checks)
         IN  [st |-> [current_block |-> r.block,
                      block_full |->
                          st.block_full \/ r.result = "GasLimitReached",
                      failed_txs |->
                          IF r.result = "InvalidTransaction"
                          THEN Append(st.failed_txs, tx)
                          ELSE st.failed_txs,
                      gas_overload_txs |->
                          IF r.result = "GasLimitReached"
                          THEN Append(st.gas_overload_txs, tx)
                          ELSE st.gas_overload_txs],
              outcome |-> r.result]

RECURSIVE SerializeAll(_)
\* .map(|tx| TransactionProto { transaction: tx.serialize() })
SerializeAll(txs) ==
    IF txs = << >> THEN << >>
    ELSE <<serialize(Head(txs))>> \o SerializeAll(Tail(txs))

\* ----------------------------------------------------------------- batch
\* The older engine of examples/src/blockchain.rs: transactions carry no
\* gas, their cost is fixed by kind, and a block is made from its parent and
\* a whole queue of transactions by one call of create_next_from_txn.
MaxBatch == 7
MaxBatchBlocks == 1
MaxParentTxs == 1

BLOCK_GAS_LIMIT == 20
BatchMintGas == 5
BatchTransferGas == 2

\* the first two transactions of tests::block_creation and a Mint that
\* overflows.  The Transfer is invalid while ALICE holds less than 99.
BatchTransaction ==
    { [type |-> "Mint", to |-> ALICE, amount |-> 100],
      [type |-> "Transfer", from |-> ALICE, to |-> BOB, amount |-> 99],
      [type |-> "Mint", to |-> ALICE, amount |-> BalanceMax] }

\* Block::genesis() of the older engine; final_state is a reference
BatchGenesis == [number |-> 0, transactions |-> << >>, final_state |-> 1]

\* let gas_cost = match tx { ... }
gas_cost(tx) == IF tx.type = "Mint" THEN BatchMintGas ELSE BatchTransferGas

\* State::apply_tx of the older engine: the same code as the newer one,
\* on transactions without the gas field
batch_apply_tx(balances, tx, checks) == apply_tx(balances, tx, checks)

\* the locals of create_next_from_txn before the loop
BatchLocals(txs, state) ==
    [txs |-> txs, rejected_txs |-> << >>, accepted_txs |-> << >>,
     next_state |-> state, gas_used |-> 0, status |-> "loop"]

\* the body of the loop that goes on after a transaction did not fit
LoopStep_NoBreak(st, checks) ==
    LET tx == Head(st.txs)
        popped == [st EXCEPT !.txs = Tail(@)]
        r == batch_apply_tx(st.next_state, tx, checks)
    IN  IF st.gas_used + gas_cost(tx) > BLOCK_GAS_LIMIT
        THEN [popped EXCEPT !.rejected_txs = Append(@, tx)]
        ELSE IF r.ret = "panic"
        THEN [popped EXCEPT !.status = "panic"]
        ELSE IF r.ret = "true"
        THEN [popped EXCEPT !.next_state = r.balances,
                            !.gas_used = @ + gas_cost(tx),
                            !.accepted_txs = Append(@, tx)]
        ELSE [popped EXCEPT !.rejected_txs = Append(@, tx)]

\* one turn of the loop on a queue that is not empty.  gas_used is a u64
\* that never exceeds BLOCK_GAS_LIMIT, so the sum cannot overflow.
LoopStep(st, checks) ==
    LET tx == Head(st.txs)
        popped == [st EXCEPT !.txs = Tail(@)]
        r == batch_apply_tx(st.next_state, tx, checks)
    IN  IF st.gas_used + gas_cost(tx) > BLOCK_GAS_LIMIT
        THEN [popped EXCEPT !.rejected_txs = Append(@, tx),
                            !.status = "break"]
        ELSE IF r.ret = "panic"
        THEN [popped EXCEPT !.status = "panic"]
        ELSE IF r.ret = "true"
        THEN [popped EXCEPT !.next_state = r.balances,
                            !.gas_used = @ + gas_cost(tx),
                            !.accepted_txs = Append(@, tx)]
        ELSE [popped EXCEPT !.rejected_txs = Append(@, tx)]

\* loop { if let Some(tx) = txs.pop_front() { ... } else { break; } }
RECURSIVE BatchLoop(_, _)
BatchLoop(st, checks) ==
    IF st.status # "loop" THEN st
    ELSE IF st.txs = << >> THEN [st EXCEPT !.status = "break"]
    ELSE BatchLoop(LoopStep(st, checks), checks)

\* create_next_from_txn that forgets the transactions left in the queue
create_next_from_txn_DropsRest(heap, self, txs, checks) ==
    LET c == clone_state(heap, self.final_state)
        end == BatchLoop(BatchLocals(txs, c.heap[c.ref]), checks)
    IN  [status |-> IF end.status = "panic" THEN "panic" ELSE "ok",
         heap |-> [c.heap EXCEPT ![c.ref] = end.next_state],
         block |-> [number |-> self.number + 1,
                    transactions |-> end.accepted_txs,
                    final_state |-> c.ref],
         rejected_txs |-> end.rejected_txs]

\* Block::create_next_from_txn(&self, txs) -> (Block, Vec<Transaction>).
\* On a panic nothing is returned; the record then holds the locals as
\* they were when the call unwound.
create_next_from_txn(heap, self, txs, checks) ==
    LET c == clone_state(heap, self.final_state)
        end == BatchLoop(BatchLocals(txs, c.heap[c.ref]), checks)
    IN  [status |-> IF end.status = "panic" THEN "panic" ELSE "ok",
         heap |-> [c.heap EXCEPT ![c.ref] = end.next_state],
         block |-> [number |-> self.number + 1,
                    transactions |-> end.accepted_txs,
                    final_state |-> c.ref],
         rejected_txs |-> end.rejected_txs \o end.txs]

\* no call of create_next_from_txn made yet
NoOut ==
    [status |-> "none", block |-> BatchGenesis, rejected_txs |-> << >>]

\* ---------------------------------------------------------- state machine
VARIABLES
    block,            \* the block under assembly
    overflow_checks,  \* build setting: TRUE panics on overflow, FALSE wraps
    op,               \* the last operation: "genesis", "next", "try_apply_tx"
    pre,              \* the block before the last operation
    last_tx,          \* the argument of the last try_apply_tx
    result,           \* what the last try_apply_tx returned
    ret,              \* what State::apply_tx returned inside it
    minted,           \* ghost: sum of the amounts of the accepted Mints
    sub_wrapped,      \* ghost: some debit was computed below zero
    add_wrapped,      \* ghost: some credit wrapped around
    c_buf,            \* codec: the bytes of the buffer not yet consumed
    c_items,          \* codec: what was written to the buffer, in order
    c_out,            \* codec: the transactions decoded so far
    c_status,         \* codec: "ok", or "panic" once deserialize unwound
    c_before,         \* codec: c_buf before the last operation
    c_op,             \* codec: the last operation
    h_heap,           \* chain: the States allocated, by reference
    h_chain,          \* chain: the blocks from genesis to the one under
                      \* assembly, each holding a reference to its State
    h_closed,         \* chain: what each parent was when next left it
    h_limit,          \* chain: the gas limit genesis was called with
    h_op,             \* chain: the last operation
    h_result,         \* chain: what the last try_apply_tx returned
    h_root,           \* chain: what the last root returned
    h_pre,            \* chain: the blocks before the last root
    r_a,              \* replay: the first engine
    r_b,              \* replay: the second engine
    r_tried,          \* replay: the calls made so far, on both engines
    current_block,    \* driver: the block under assembly
    round,            \* driver: the round being read
    block_full,       \* driver: GasLimitReached was returned this round
    failed_txs,       \* driver: the transactions rejected as invalid
    gas_overload_txs, \* driver: the transactions rejected for gas
    block_proposal_collection_ids,  \* driver: collections used so far
    new_collections,  \* driver: collections used in this round
    duplicate_collection_count,     \* driver: collections skipped
    d_pc,             \* driver: where main is
    d_ids,            \* driver: the ids of the response not yet visited
    d_cur,            \* driver: the collection visited last
    d_left,           \* driver: transactions of d_cur not yet decoded
    d_op,             \* driver: the last step
    d_pre,            \* driver: current_block before the last step
    d_log,            \* driver: the transactions decoded for the block
                      \* under assembly, each with its collection and
                      \* what became of it
    d_fetches,        \* driver: how often each collection was run
    d_rejected,       \* driver: collections a transaction of which was
                      \* rejected
    d_resent,         \* driver: what was sent back to the mempool
    b_heap,           \* batch: the States allocated, by reference
    b_parent,         \* batch: the block create_next_from_txn is called on
    b_txs,            \* batch: the queue the caller builds and passes
    b_out,            \* batch: what the last call returned
    b_pre,            \* batch: the parent, with its State, before the call
    b_op              \* batch: the last step

engine_vars == <<block, overflow_checks, op, pre, last_tx, result, ret,
                 minted, sub_wrapped, add_wrapped>>
codec_vars == <<c_buf, c_items, c_out, c_status, c_before, c_op>>
chain_vars == <<h_heap, h_chain, h_closed, h_limit, h_op, h_result, h_root,
                h_pre>>
replay_vars == <<r_a, r_b, r_tried>>
driver_vars == <<current_block, round, block_full, failed_txs,
                 gas_overload_txs, block_proposal_collection_ids,
                 new_collections, duplicate_collection_count, d_pc, d_ids,
                 d_cur, d_left, d_op, d_pre, d_log, d_fetches, d_rejected,
                 d_resent>>
batch_vars == <<b_heap, b_parent, b_txs, b_out, b_pre, b_op>>
vars == <<engine_vars, codec_vars, chain_vars, replay_vars, driver_vars,
          batch_vars>>

\* the block of a chain with its State in place of the reference
Deref(heap, b) == [b EXCEPT !.state = heap[b.state]]
DerefAll(heap, chain) == [i \in 1 .. Len(chain) |-> Deref(heap, chain[i])]

\* let genesis = Block::genesis(gas_limit)
ChainInit ==
    /\ h_limit \in GasLimits
    /\ h_heap = <<genesis(h_limit).state>>
    /\ h_chain = <<[genesis(h_limit) EXCEPT !.state = 1]>>
    /\ h_closed = << >>
    /\ h_op = "genesis"
    /\ h_result = "None"
    /\ h_root = 0
    /\ h_pre = << >>

\* the chain at rest while another part runs
ChainIdle == ChainInit /\ h_limit = BlockGasLimit

\* main up to the first test of `while round <= ...`
DriverInit ==
    /\ current_block = next(genesis(BlockGasLimit))
    /\ round = 0
    /\ block_full = FALSE
    /\ failed_txs = << >>
    /\ gas_overload_txs = << >>
    /\ block_proposal_collection_ids = << >>
    /\ new_collections = << >>
    /\ duplicate_collection_count = 0
    /\ d_pc = "round"
    /\ d_ids = << >>
    /\ d_cur = 0
    /\ d_left = 0
    /\ d_op = "start"
    /\ d_pre = current_block
    /\ d_log = << >>
    /\ d_fetches = [id \in CollectionIds |-> 0]
    /\ d_rejected = {}
    /\ d_resent = << >>

\* let genesis = Block::genesis(); let txs = VecDeque::new()
BatchInit ==
    /\ b_heap = <<StateNew>>
    /\ b_parent = BatchGenesis
    /\ b_txs = << >>
    /\ b_out = NoOut
    /\ b_pre = [b_parent EXCEPT !.final_state = StateNew]
    /\ b_op = "genesis"

\* two engines at genesis, each of either build
ReplayInit ==
    /\ \E ca, cb \in BOOLEAN :
         r_a = ReplayEngine(ca) /\ r_b = ReplayEngine(cb)
    /\ r_tried = << >>

\* the replay at rest while another part runs
ReplayIdle == ReplayInit /\ ~r_a.checks /\ ~r_b.checks

\* the codec before anything was written: an empty buffer
CodecInit ==
    /\ c_buf = << >>
    /\ c_items = << >>
    /\ c_out = << >>
    /\ c_status = "ok"
    /\ c_before = << >>
    /\ c_op = "new"

EngineInit ==
    /\ overflow_checks \in BOOLEAN
    /\ block = genesis(BlockGasLimit)
    /\ op = "genesis"
    /\ pre = block
    /\ last_tx = NoTx
    /\ result = "None"
    /\ ret = "none"
    /\ minted = 0
    /\ sub_wrapped = FALSE
    /\ add_wrapped = FALSE

Init == EngineInit /\ CodecInit /\ ChainIdle /\ ReplayIdle /\ DriverInit
    /\ BatchInit

\* a panic unwinds out of the engine: nothing is called on the block again
Running == result # "Panic"

NextBlock ==
    /\ Running
    /\ block.number < MaxBlocks
    /\ block' = next(block)
    /\ op' = "next"
    /\ pre' = block
    /\ last_tx' = NoTx
    /\ result' = "None"
    /\ ret' = "none"
    /\ UNCHANGED <<overflow_checks, minted, sub_wrapped, add_wrapped>>
    /\ UNCHANGED <<codec_vars, chain_vars, replay_vars, driver_vars,
                 batch_vars>>

TryApplyTx ==
    /\ Running
    /\ Len(block.transactions) < MaxTxs
    /\ \E tx \in Transaction :
         LET r == try_apply_tx(block, tx, overflow_checks)
         IN  /\ block' = r.block
             /\ op' = "try_apply_tx"
             /\ pre' = block
             /\ last_tx' = tx
             /\ result' = r.result
             /\ ret' = r.ret
             /\ minted' = IF r.result = "Ok" /\ tx.type = "Mint"
                          THEN minted + tx.amount ELSE minted
             /\ sub_wrapped' = (sub_wrapped \/ r.borrow)
             /\ add_wrapped' = (add_wrapped \/ r.carry)
    /\ UNCHANGED overflow_checks
    /\ UNCHANGED <<codec_vars, chain_vars, replay_vars, driver_vars,
                 batch_vars>>

Next == NextBlock \/ TryApplyTx

Spec == Init /\ [][Next]_vars

\* ------------------------------------------------- the codec as a machine
\* A sender appends encodings to a byte stream, the network may append a
\* byte that is no tag, and the receiver decodes from the front.
Serialize ==
    /\ c_status = "ok"
    /\ Len(c_items) < MaxMsgs
    /\ \E tx \in CodecTransaction :
         /\ c_buf' = c_buf \o serialize(tx)
         /\ c_items' = Append(c_items, tx)
    /\ c_before' = c_buf
    /\ c_op' = "serialize"
    /\ UNCHANGED <<c_out, c_status>>
    /\ UNCHANGED <<engine_vars, chain_vars, replay_vars, driver_vars,
                 batch_vars>>

ReceiveRaw ==
    /\ c_status = "ok"
    /\ Len(c_items) < MaxMsgs
    /\ \E b \in BadTags :
         /\ c_buf' = Append(c_buf, b)
         /\ c_items' = Append(c_items, [type |-> "Raw", byte |-> b])
    /\ c_before' = c_buf
    /\ c_op' = "raw"
    /\ UNCHANGED <<c_out, c_status>>
    /\ UNCHANGED <<engine_vars, chain_vars, replay_vars, driver_vars,
                 batch_vars>>

Deserialize ==
    /\ c_status = "ok"
    /\ LET r == deserialize(c_buf)
       IN  /\ c_buf' = r.rest
           /\ c_status' = r.status
           /\ c_out' = IF r.status = "ok" THEN Append(c_out, r.tx)
                       ELSE c_out
    /\ c_before' = c_buf
    /\ c_op' = "deserialize"
    /\ UNCHANGED c_items
    /\ UNCHANGED <<engine_vars, chain_vars, replay_vars, driver_vars,
                 batch_vars>>

\* the engine at rest while the codec runs
EngineIdle == EngineInit /\ overflow_checks = FALSE

InitCodec ==
    EngineIdle /\ CodecInit /\ ChainIdle /\ ReplayIdle /\ DriverInit
    /\ BatchInit

NextCodec == Serialize \/ ReceiveRaw \/ Deserialize

SpecCodec == InitCodec /\ [][NextCodec]_vars

\* ------------------------------------------------- the chain as a machine
\* the block under assembly is the last of the chain
ChainRunning == h_result # "Panic"

\* let child = parent.next()
ChainNext ==
    /\ ChainRunning
    /\ Len(h_chain) < MaxChain
    /\ LET parent == h_chain[Len(h_chain)]
           c == clone_state(h_heap, parent.state)
       IN  /\ h_heap' = c.heap
           /\ h_chain' = Append(h_chain, [next(parent) EXCEPT !.state = c.ref])
           /\ h_closed' = Append(h_closed, Deref(h_heap, parent))
    /\ h_op' = "next"
    /\ h_result' = "None"
    /\ h_root' = 0
    /\ h_pre' = << >>
    /\ UNCHANGED h_limit
    /\ UNCHANGED <<engine_vars, codec_vars, replay_vars, driver_vars,
                 batch_vars>>

\* child.try_apply_tx(&tx)
ChainApply ==
    /\ ChainRunning
    /\ Len(h_chain[Len(h_chain)].transactions) < MaxTxs
    /\ ChainTxs(h_chain) < MaxChainTxs
    /\ \E tx \in Transaction :
         LET last == h_chain[Len(h_chain)]
             r == try_apply_tx(Deref(h_heap, last), tx, overflow_checks)
         IN  /\ h_heap' = [h_heap EXCEPT ![last.state] = r.block.state]
             /\ h_chain' = [h_chain EXCEPT
                              ![Len(h_chain)] =
                                 [r.block EXCEPT !.state = last.state]]
             /\ h_result' = r.result
    /\ h_op' = "try_apply_tx"
    /\ h_root' = 0
    /\ h_pre' = << >>
    /\ UNCHANGED <<h_closed, h_limit>>
    /\ UNCHANGED <<engine_vars, codec_vars, replay_vars, driver_vars,
                 batch_vars>>

\* block.root(), on any block of the chain
ChainRoot ==
    /\ ChainRunning
    /\ \E i \in 1 .. Len(h_chain) :
         h_root' = root(Deref(h_heap, h_chain[i]))
    /\ h_op' = "root"
    /\ h_pre' = DerefAll(h_heap, h_chain)
    /\ UNCHANGED <<h_heap, h_chain, h_closed, h_limit, h_result>>
    /\ UNCHANGED <<engine_vars, codec_vars, replay_vars, driver_vars,
                 batch_vars>>

InitChain ==
    EngineInit /\ CodecInit /\ ChainInit /\ ReplayIdle /\ DriverInit
    /\ BatchInit

NextChain == ChainNext \/ ChainApply \/ ChainRoot

SpecChain == InitChain /\ [][NextChain]_vars

\* ------------------------------------------------ the replay as a machine
\* both engines are given next()
ReplayNext ==
    /\ ~Halted(r_a) /\ ~Halted(r_b)
    /\ Len(r_tried) < MaxReplay
    /\ r_a' = FeedNext(r_a)
    /\ r_b' = FeedNext(r_b)
    /\ r_tried' = Append(r_tried, [type |-> "Next"])
    /\ UNCHANGED <<engine_vars, codec_vars, chain_vars, driver_vars,
                 batch_vars>>

\* both engines are given try_apply_tx(&tx), for the same tx
ReplayApply ==
    /\ ~Halted(r_a) /\ ~Halted(r_b)
    /\ Len(r_tried) < MaxReplay
    /\ \E tx \in ReplayTransaction :
         /\ r_a' = FeedTx(r_a, tx)
         /\ r_b' = FeedTx(r_b, tx)
         /\ r_tried' = Append(r_tried, tx)
    /\ UNCHANGED <<engine_vars, codec_vars, chain_vars, driver_vars,
                 batch_vars>>

InitReplay ==
    EngineIdle /\ CodecInit /\ ChainIdle /\ ReplayInit /\ DriverInit
    /\ BatchInit

NextReplay == ReplayNext \/ ReplayApply

SpecReplay == InitReplay /\ [][NextReplay]_vars

\* ------------------------------------------------ the driver as a machine
\* The top of `while round <= blocks_to_run * rounds_per_block`, up to the
\* answer to node_read_causal.  An answer that is an error visits no
\* collection, as an empty answer does.
ReadCausal ==
    /\ d_pc = "round"
    /\ round <= BlocksToRun * RoundsPerBlock
    /\ block_full' = FALSE
    /\ failed_txs' = << >>
    /\ gas_overload_txs' = << >>
    /\ duplicate_collection_count' = 0
    /\ new_collections' = << >>
    /\ \E ids \in Responses : d_ids' = ids
    /\ d_pc' = "ids"
    /\ d_op' = "read_causal"
    /\ d_pre' = current_block
    /\ UNCHANGED <<current_block, round, block_proposal_collection_ids,
                   d_cur, d_left, d_log, d_fetches, d_rejected, d_resent>>
    /\ UNCHANGED <<engine_vars, codec_vars, chain_vars, replay_vars,
                 batch_vars>>

\* for collection_id ...: the id is one of an earlier round
SkipDuplicate ==
    /\ d_pc = "ids"
    /\ d_ids # << >>
    /\ contains(block_proposal_collection_ids, Head(d_ids))
    /\ duplicate_collection_count' = duplicate_collection_count + 1
    /\ d_cur' = Head(d_ids)
    /\ d_ids' = Tail(d_ids)
    /\ d_op' = "skip_duplicate"
    /\ d_pre' = current_block
    /\ UNCHANGED <<current_block, round, block_full, failed_txs,
                   gas_overload_txs, block_proposal_collection_ids,
                   new_collections, d_pc, d_left, d_log, d_fetches,
                   d_rejected, d_resent>>
    /\ UNCHANGED <<engine_vars, codec_vars, chain_vars, replay_vars,
                 batch_vars>>

\* for collection_id ...: get_collections answers with the transactions of
\* the collection, none when the retrieval failed
GetCollection ==
    /\ d_pc = "ids"
    /\ d_ids # << >>
    /\ ~contains(block_proposal_collection_ids, Head(d_ids))
    /\ d_cur' = Head(d_ids)
    /\ d_ids' = Tail(d_ids)
    /\ \E n \in 0 .. MaxCollectionTxs : d_left' = n
    /\ d_fetches' = [d_fetches EXCEPT ![Head(d_ids)] = @ + 1]
    /\ d_pc' = "txs"
    /\ d_op' = "get_collections"
    /\ d_pre' = current_block
    /\ UNCHANGED <<current_block, round, block_full, failed_txs,
                   gas_overload_txs, block_proposal_collection_ids,
                   new_collections, duplicate_collection_count, d_log,
                   d_rejected, d_resent>>
    /\ UNCHANGED <<engine_vars, codec_vars, chain_vars, replay_vars,
                 batch_vars>>

\* for tx in decoded_txs: the next transaction is decoded and goes through
\* the loop body
ApplyTx ==
    /\ d_pc = "txs"
    /\ d_left > 0
    /\ \E payload \in Payloads :
         LET dec == deserialize(payload)
             r == LoopBody([current_block |-> current_block,
                            block_full |-> block_full,
                            failed_txs |-> failed_txs,
                            gas_overload_txs |-> gas_overload_txs],
                           dec.tx, overflow_checks)
         IN  IF dec.status = "panic"
             THEN /\ d_pc' = "panic"
                  /\ d_op' = "decode"
                  /\ UNCHANGED <<current_block, block_full, failed_txs,
                                 gas_overload_txs, d_log, d_rejected>>
             ELSE /\ current_block' = r.st.current_block
                  /\ block_full' = r.st.block_full
                  /\ failed_txs' = r.st.failed_txs
                  /\ gas_overload_txs' = r.st.gas_overload_txs
                  /\ d_log' = Append(d_log, [tx |-> dec.tx, cid |-> d_cur,
                                             outcome |-> r.outcome])
                  /\ d_rejected' = IF r.outcome \in {"Ok", "Panic"}
                                   THEN d_rejected
                                   ELSE d_rejected \cup {d_cur}
                  /\ d_pc' = IF r.outcome = "Panic" THEN "panic" ELSE "txs"
                  /\ d_op' = "apply"
    /\ d_left' = d_left - 1
    /\ d_pre' = current_block
    /\ UNCHANGED <<round, block_proposal_collection_ids, new_collections,
                   duplicate_collection_count, d_ids, d_cur, d_fetches,
                   d_resent>>
    /\ UNCHANGED <<engine_vars, codec_vars, chain_vars, replay_vars,
                 batch_vars>>

\* new_collections.push(collection_id), after the last transaction
EndCollection ==
    /\ d_pc = "txs"
    /\ d_left = 0
    /\ new_collections' = Append(new_collections, d_cur)
    /\ d_pc' = "ids"
    /\ d_op' = "end_collection"
    /\ d_pre' = current_block
    /\ UNCHANGED <<current_block, round, block_full, failed_txs,
                   gas_overload_txs, block_proposal_collection_ids,
                   duplicate_collection_count, d_ids, d_cur, d_left, d_log,
                   d_fetches, d_rejected, d_resent>>
    /\ UNCHANGED <<engine_vars, codec_vars, chain_vars, replay_vars,
                 batch_vars>>

\* after the last collection of the answer: the ids are recorded, the
\* rejected transactions are sent back when RE_ADD_TXS is set and this
\* client is the proposer, and the next block is begun
FinishRound ==
    /\ d_pc = "ids"
    /\ d_ids = << >>
    /\ block_proposal_collection_ids'
         = block_proposal_collection_ids \o new_collections
    /\ \E proposer \in BOOLEAN :
         d_resent' = IF RE_ADD_TXS /\ proposer
                     THEN d_resent
                            \o SerializeAll(failed_txs \o gas_overload_txs)
                     ELSE d_resent
    /\ current_block' = next(current_block)
    /\ round' = round + RoundsPerBlock
    /\ d_log' = << >>
    /\ d_pc' = "round"
    /\ d_op' = "finish_round"
    /\ d_pre' = current_block
    /\ UNCHANGED <<block_full, failed_txs, gas_overload_txs,
                   new_collections, duplicate_collection_count, d_ids,
                   d_cur, d_left, d_fetches, d_rejected>>
    /\ UNCHANGED <<engine_vars, codec_vars, chain_vars, replay_vars,
                 batch_vars>>

InitDriver == EngineInit /\ CodecInit /\ ChainIdle /\ ReplayIdle /\ DriverInit
    /\ BatchInit

NextDriver ==
    \/ ReadCausal
    \/ SkipDuplicate
    \/ GetCollection
    \/ ApplyTx
    \/ EndCollection
    \/ FinishRound

SpecDriver == InitDriver /\ [][NextDriver]_vars

\* ------------------------------------------------- the batch as a machine
\* txs.push_back(tx): the caller builds the queue
BatchPush ==
    /\ b_op \in {"genesis", "push", "adopt"}
    /\ Len(b_txs) < MaxBatch
    /\ \E tx \in BatchTransaction : b_txs' = Append(b_txs, tx)
    /\ b_op' = "push"
    /\ UNCHANGED <<b_heap, b_parent, b_out, b_pre>>
    /\ UNCHANGED <<engine_vars, codec_vars, chain_vars, replay_vars,
                   driver_vars>>

\* let (new_block, rejected_txs) = parent.create_next_from_txn(txs)
BatchCreate ==
    /\ b_op \in {"genesis", "push", "adopt"}
    /\ LET r == create_next_from_txn(b_heap, b_parent, b_txs,
                                     overflow_checks)
       IN  /\ b_heap' = r.heap
           /\ b_out' = [status |-> r.status, block |-> r.block,
                        rejected_txs |-> r.rejected_txs]
    /\ b_pre' = [b_parent EXCEPT !.final_state = b_heap[@]]
    /\ b_op' = "create"
    /\ UNCHANGED <<b_parent, b_txs>>
    /\ UNCHANGED <<engine_vars, codec_vars, chain_vars, replay_vars,
                   driver_vars>>

\* the block returned becomes the parent of the next call; the old parent
\* is dropped
BatchAdopt ==
    /\ b_op = "create"
    /\ b_out.status = "ok"
    /\ b_parent.number < MaxBatchBlocks
    /\ Len(b_txs) <= MaxParentTxs
    /\ b_heap' = <<b_heap[b_out.block.final_state]>>
    /\ b_parent' = [b_out.block EXCEPT !.final_state = 1]
    /\ b_txs' = << >>
    /\ b_out' = NoOut
    /\ b_pre' = [b_out.block EXCEPT !.final_state = b_heap[@]]
    /\ b_op' = "adopt"
    /\ UNCHANGED <<engine_vars, codec_vars, chain_vars, replay_vars,
                   driver_vars>>

InitBatch ==
    EngineInit /\ CodecInit /\ ChainIdle /\ ReplayIdle /\ DriverInit
    /\ BatchInit

NextBatch == BatchPush \/ BatchCreate \/ BatchAdopt

SpecBatch == InitBatch /\ [][NextBatch]_vars

TypeOK ==
    /\ block.number \in 0 .. MaxBlocks
    /\ block.gas_used \in Gas
    /\ block.gas_limit \in Gas
    /\ DOMAIN block.state \subseteq Address
    /\ \A a \in DOMAIN block.state : block.state[a] \in Balance
    /\ Len(block.transactions) <= MaxTxs

\* ------------------------------------------------ vocabulary of the claims
RECURSIVE SumGas(_)
\* the mathematical sum of gas() over a transaction list
SumGas(txs) == IF txs = << >> THEN 0 ELSE gas(Head(txs)) + SumGas(Tail(txs))

RECURSIVE SumOver(_, _)
SumOver(balances, S) ==
    IF S = {} THEN 0
    ELSE LET a == CHOOSE x \in S : TRUE
         IN  balances[a] + SumOver(balances, S \ {a})

\* total supply: the sum of all balances of a ledger
TotalSupply(balances) == SumOver(balances, DOMAIN balances)

\* the balance of an account, 0 when it has no entry
BalanceOf(balances, a) == IF a \in DOMAIN balances THEN balances[a] ELSE 0

\* the last operation was a try_apply_tx
Tried == op = "try_apply_tx"
\* ... and it got past the gas check, so State::apply_tx ran on tx
Applied == Tried /\ ret # "none"
AppliedMint == Applied /\ last_tx.type = "Mint"
AppliedTransfer == Applied /\ last_tx.type = "Transfer"

\* the ledger a Mint must leave behind, in unbounded arithmetic
MintedLedger(balances, t) ==
    MapInsert(balances, t.to, BalanceOf(balances, t.to) + t.amount)

\* the ledger an accepted Transfer must leave behind, in unbounded
\* arithmetic: debit from, then credit to
TransferredLedger(balances, t) ==
    LET debited == [balances EXCEPT ![t.from] = @ - t.amount]
    IN  MapInsert(debited, t.to, BalanceOf(debited, t.to) + t.amount)

SenderCanPay(balances, t) ==
    t.from \in DOMAIN balances /\ balances[t.from] >= t.amount

\* ------------------------------------------------------------------ C1
\* C1: in every reachable state the block under assembly has gas_used equal
\* to the sum of gas() over its transactions, and gas_used <= gas_limit.
C1_GasAccounting ==
    /\ block.gas_used = SumGas(block.transactions)
    /\ block.gas_used <= block.gas_limit

\* ------------------------------------------------------------------ C2
\* C2: the sum of all balances equals the sum of the amounts of the
\* accepted Mints; an accepted Transfer and every rejected transaction
\* leave the total supply unchanged.
C2_Conservation ==
    /\ TotalSupply(block.state) = minted
    /\ (Tried /\ (result \in {"GasLimitReached", "InvalidTransaction"}
                  \/ (result = "Ok" /\ last_tx.type = "Transfer")))
         => TotalSupply(block.state) = TotalSupply(pre.state)

\* ------------------------------------------------------------------ C3
\* C3: try_apply_tx returns GasLimitReached exactly when the mathematical
\* sum gas_used + tx.gas() exceeds gas_limit, and then the block is
\* unchanged.
C3_GasLimitReachedIff ==
    Tried =>
      /\ (result = "GasLimitReached")
           <=> (pre.gas_used + gas(last_tx) > pre.gas_limit)
      /\ (result = "GasLimitReached") => block = pre

\* ------------------------------------------------------------------ C4
\* C4: when try_apply_tx returns InvalidTransaction, ledger, gas_used and
\* transactions are what they were before the call.
C4_InvalidLeavesBlock ==
    (Tried /\ result = "InvalidTransaction") =>
      /\ block.state = pre.state
      /\ block.gas_used = pre.gas_used
      /\ block.transactions = pre.transactions

\* an invalid Transfer of a positive amount was rejected by a block that
\* already holds a transaction and has used gas
C4_Witness ==
    /\ Tried /\ result = "InvalidTransaction"
    /\ last_tx.type = "Transfer" /\ last_tx.amount > 0
    /\ Len(block.transactions) > 0
    /\ block.gas_used > 0

\* ------------------------------------------------------------------ C5
\* C5: when try_apply_tx returns Ok, gas_used has increased by exactly
\* tx.gas(), tx is the new last element of transactions, the ledger is the
\* pre-call ledger with tx applied, number and gas_limit are unchanged.
C5_OkEffects ==
    (Tried /\ result = "Ok") =>
      /\ block.gas_used = pre.gas_used + gas(last_tx)
      /\ block.transactions = Append(pre.transactions, last_tx)
      /\ block.state = IF last_tx.type = "Mint"
                       THEN MintedLedger(pre.state, last_tx)
                       ELSE TransferredLedger(pre.state, last_tx)
      /\ block.number = pre.number
      /\ block.gas_limit = pre.gas_limit

\* ------------------------------------------------------------------ C6
\* C6: apply of Transfer(from, to, amount) returns true iff from has an
\* entry with balance >= amount; on success from is decreased by amount, to
\* is increased by amount (created if absent), no other account changes.
C6_TransferValidity ==
    AppliedTransfer =>
      /\ (ret = "true") <=> SenderCanPay(pre.state, last_tx)
      /\ (ret = "true") =>
           block.state = TransferredLedger(pre.state, last_tx)

\* ------------------------------------------------------------------ C7
\* C7: apply of Mint(to, amount) always returns true and leaves
\* balance(to) = prior balance (0 if absent) + amount, creating the entry
\* when absent and changing no other account.
C7_MintAdditive ==
    AppliedMint =>
      /\ ret = "true"
      /\ block.state = MintedLedger(pre.state, last_tx)

\* ------------------------------------------------------------------ C8
\* C8: when apply returns false the ledger is the pre-call ledger; when it
\* returns true for a Transfer both the debit and the credit have taken
\* place; no call ends with one of the two without the other.
Debited ==
    /\ last_tx.from \in DOMAIN block.state
    /\ last_tx.from \in DOMAIN pre.state
    /\ block.state[last_tx.from] = pre.state[last_tx.from] - last_tx.amount
Credited ==
    /\ last_tx.to \in DOMAIN block.state
    /\ block.state[last_tx.to]
         = BalanceOf(pre.state, last_tx.to) + last_tx.amount
C8_Atomicity ==
    /\ (Applied /\ ret = "false") => block.state = pre.state
    /\ (AppliedTransfer /\ last_tx.from # last_tx.to) =>
         /\ (ret = "true") => (Debited /\ Credited)
         /\ last_tx.amount > 0 => (Debited <=> Credited)

\* ------------------------------------------------------------------ C9
\* C9: a Transfer whose sender has no entry fails for every amount,
\* amount 0 included, and leaves the ledger unchanged.
C9_VacantSenderFails ==
    (AppliedTransfer /\ last_tx.from \notin DOMAIN pre.state) =>
      /\ ret = "false"
      /\ result = "InvalidTransaction"
      /\ block.state = pre.state

\* a Transfer of amount 0 from an account without entry, to another
\* account without entry, was applied
C9_Witness ==
    /\ AppliedTransfer
    /\ last_tx.amount = 0
    /\ last_tx.from \notin DOMAIN pre.state
    /\ last_tx.to \notin DOMAIN pre.state
    /\ last_tx.from # last_tx.to

DecodedIndex == IF c_status = "ok" THEN Len(c_out) ELSE Len(c_out) + 1

\* the last operation was a deserialize of the encoding of a Transaction
DecodedEncoding ==
    /\ c_op = "deserialize"
    /\ DecodedIndex \in 1 .. Len(c_items)
    /\ c_items[DecodedIndex].type # "Raw"

\* the bytes the last serialize appended
Encoded == SubSeq(c_buf, Len(c_before) + 1, Len(c_buf))

\* byte i of the n-byte big-endian form of v (v below 2^31: the bytes
\* above the low four are zero)
ByteAt(v, n, i) ==
    IF n - i >= 4 THEN 0 ELSE (v \div (256 ^ (n - i))) % 256
BigEndian(v, n) == [i \in 1 .. n |-> ByteAt(v, n, i)]

\* the length of the encoding of a Transaction according to the wire format
WireLength(tx) == IF tx.type = "Mint" THEN 17 ELSE 21

\* ------------------------------------------------------------------ C11
\* C11: round trip: deserialize of the bytes serialize wrote for a Mint or
\* a Transfer returns that transaction.
C11_RoundTrip ==
    /\ DecodedEncoding =>
         /\ c_status = "ok"
         /\ c_out[DecodedIndex] = c_items[DecodedIndex]
    /\ \A i \in 1 .. Len(c_out) : c_out[i] = c_items[i]

\* a Transfer with from # to and every field a multi-byte value came back
C11_Witness ==
    /\ DecodedEncoding /\ c_status = "ok"
    /\ c_out[DecodedIndex].type = "Transfer"
    /\ c_out[DecodedIndex].from # c_out[DecodedIndex].to
    /\ c_out[DecodedIndex].amount > 2 ^ 24
    /\ c_out[DecodedIndex].gas > 2 ^ 24

C13_ConsumesExactly ==
    /\ DecodedEncoding =>
         /\ c_status = "ok"
         /\ Len(c_before) >= WireLength(c_items[DecodedIndex])
         /\ c_buf = SubSeq(c_before,
                           WireLength(c_items[DecodedIndex]) + 1,
                           Len(c_before))
    /\ (c_status = "ok" /\ Len(c_out) = 2) =>
         (c_out[1] = c_items[1] /\ c_out[2] = c_items[2])

\* the first of two concatenated encodings was decoded and the whole of
\* the second is left in the buffer
C13_Witness ==
    /\ DecodedEncoding /\ c_status = "ok"
    /\ Len(c_out) = 1 /\ Len(c_items) = 2
    /\ c_items[2].type # "Raw"
    /\ c_items[1].type # c_items[2].type
    /\ Len(c_buf) = WireLength(c_items[2])
    /\ Len(c_before) = WireLength(c_items[1]) + WireLength(c_items[2])

\* ------------------------------------------------------------------ C14
\* C14: deserialize on a buffer whose first byte is neither 0 nor 1 yields
\* a recoverable error value: it does not abort, and decoding can go on.
C14_BadTagRecoverable ==
    (c_op = "deserialize" /\ c_before # << >> /\ c_before[1] \notin {0, 1})
      => c_status # "panic"

\* C15: every call of try_apply_tx completes and returns Ok, GasLimitReached
\* or InvalidTransaction; no call panics, aborts or unwinds.
C15_AlwaysReturns ==
    Tried => result \in {"Ok", "GasLimitReached", "InvalidTransaction"}

\* ------------------------------------------- vocabulary of the chain claims
\* the blocks of the chain, each with its State
ChainBlocks == DerefAll(h_heap, h_chain)
\* the block under assembly
LastBlock == ChainBlocks[Len(h_chain)]
\* the parent of the block under assembly, as next left it
ClosedParent == h_closed[Len(h_closed)]
\* the fields root reads
HashedFields(b) == <<b.number, b.transactions, b.state, b.gas_used>>
\* the genesis block as constructed, and every block of the chain
KnownBlocks ==
    {[number |-> 0, transactions |-> << >>, state |-> << >>,
      gas_used |-> 0, gas_limit |-> h_limit]}
      \cup {ChainBlocks[i] : i \in 1 .. Len(h_chain)}

\* C16: Block::genesis(gas_limit) returns a block with number 0, no
\* transactions, an empty ledger, gas_used 0 and the gas limit it was given.
C16_Genesis ==
    h_op = "genesis" =>
        /\ Len(h_chain) = 1
        /\ LastBlock.number = 0
        /\ LastBlock.transactions = << >>
        /\ DOMAIN LastBlock.state = {}
        /\ LastBlock.gas_used = 0
        /\ LastBlock.gas_limit = h_limit

C16_Witness ==
    h_op = "genesis" /\ h_limit = GasMax /\ LastBlock.gas_limit = GasMax

\* C17: next(parent) returns a block with number parent.number + 1, the
\* parent's ledger as it was at the call, no transactions, gas_used 0 and the
\* parent's gas limit; along a chain from genesis the numbers are 0, 1, 2, ...
C17_Next ==
    /\ h_op = "next" =>
         /\ LastBlock.number = ClosedParent.number + 1
         /\ LastBlock.state = ClosedParent.state
         /\ LastBlock.transactions = << >>
         /\ LastBlock.gas_used = 0
         /\ LastBlock.gas_limit = ClosedParent.gas_limit
    /\ \A i \in 1 .. Len(h_chain) : h_chain[i].number = i - 1

C17_Witness ==
    /\ h_op = "next"
    /\ Len(h_chain) = 3
    /\ ClosedParent.gas_used > 0
    /\ DOMAIN ClosedParent.state # {}
    /\ LastBlock.state = ClosedParent.state

\* C18: after child = next(parent), no sequence of try_apply_tx on the child
\* (or on a later descendant) changes any field of the parent.
C18_ParentUntouched ==
    \A i \in 1 .. Len(h_closed) : ChainBlocks[i] = h_closed[i]

C18_Witness ==
    /\ Len(h_chain) >= 2
    /\ h_op = "try_apply_tx"
    /\ h_result = "Ok"
    /\ LastBlock.state # ClosedParent.state
    /\ ChainBlocks[Len(h_chain) - 1] = ClosedParent

\* C19: root is a function of (number, transactions, ledger, gas_used) alone:
\* the gas limit of a block has no part in its root, a call of root returns
\* the root of the block it was called on, and it changes no field of any block.
C19_RootPure ==
    /\ \A b \in KnownBlocks : \A g \in Gas :
         root([b EXCEPT !.gas_limit = g]) = root(b)
    /\ h_op = "root" =>
         /\ ChainBlocks = h_pre
         /\ \E i \in 1 .. Len(h_chain) : h_root = root(ChainBlocks[i])

C19_Witness ==
    /\ h_op = "root"
    /\ LastBlock.transactions # << >>
    /\ h_root = root(LastBlock)
    /\ h_root = root([LastBlock EXCEPT !.gas_limit = 0])
    /\ LastBlock.gas_limit # 0

C26_GasBeforeValidity ==
    (/\ Tried
     /\ last_tx.type = "Transfer"
     /\ ~SenderCanPay(pre.state, last_tx)
     /\ pre.gas_used + gas(last_tx) > pre.gas_limit)
      => (result = "GasLimitReached" /\ block = pre)

\* ------------------------------------------------------------------ C28
\* C28: no operation removes a ledger entry: every account with an entry
\* before try_apply_tx or next has one after it; a sender whose whole
\* balance was transferred away keeps an entry with balance 0; a Transfer
\* of amount 0 succeeds from an account with an entry and fails from one
\* without.
C28_EntriesNeverShrink ==
    /\ DOMAIN pre.state \subseteq DOMAIN block.state
    /\ (/\ AppliedTransfer /\ ret = "true"
        /\ last_tx.from # last_tx.to
        /\ last_tx.amount = pre.state[last_tx.from])
         => (/\ last_tx.from \in DOMAIN block.state
             /\ block.state[last_tx.from] = 0)
    /\ (AppliedTransfer /\ last_tx.amount = 0 /\ last_tx.from # last_tx.to)
         => (ret = "true" <=> last_tx.from \in DOMAIN pre.state)

C28_Witness ==
    /\ AppliedTransfer /\ ret = "true"
    /\ last_tx.amount = 0
    /\ last_tx.from # last_tx.to
    /\ pre.state[last_tx.from] = 0
    /\ \E i \in 1 .. Len(pre.transactions) :
         /\ pre.transactions[i].type = "Transfer"
         /\ pre.transactions[i].from = last_tx.from
         /\ pre.transactions[i].amount > 0

\* ------------------------------------------------------------------ C29
\* C29: a Transfer with from = to succeeds exactly when the account has an
\* entry with balance >= amount, and on success every balance is what it
\* was before the call.
C29_SelfTransfer ==
    (AppliedTransfer /\ last_tx.from = last_tx.to) =>
      /\ ret \in {"true", "false"}
      /\ ret = "true" <=> SenderCanPay(pre.state, last_tx)
      /\ ret = "true" => block.state = pre.state

C29_Witness ==
    /\ AppliedTransfer /\ ret = "true"
    /\ last_tx.from = last_tx.to
    /\ last_tx.amount = BalanceMax
    /\ block.state = pre.state

\* ------------------------------------------ vocabulary of the replay claims
\* tests::block_creation: the successor of genesis, then the four calls
ScenarioCalls ==
    <<[type |-> "Next"], ScenarioMint, ScenarioT1, ScenarioT2, ScenarioT3>>

ScenarioBlock ==
    [number |-> 1,
     transactions |-> <<ScenarioMint, ScenarioT1, ScenarioT2>>,
     state |-> [a \in {ALICE, BOB} |-> IF a = ALICE THEN 6 ELSE 94],
     gas_used |-> 6,
     gas_limit |-> ScenarioGasLimit]

ScenarioOuts == <<"next", "Ok", "Ok", "Ok", "InvalidTransaction">>

\* ------------------------------------------------------------------ C25
\* C25: on the successor of genesis, Mint(ALICE,100), Transfer(ALICE to
\* BOB, 99) and Transfer(BOB to ALICE, 5) are accepted and Transfer(BOB to
\* ALICE, 5000) is rejected; the block then has number 1, these three
\* transactions, ledger {ALICE: 6, BOB: 94} and gas_used 6.
C25_Scenario ==
    r_tried = ScenarioCalls =>
      /\ r_a.outs = ScenarioOuts /\ r_a.block = ScenarioBlock
      /\ r_b.outs = ScenarioOuts /\ r_b.block = ScenarioBlock

C25_Witness ==
    /\ r_tried = ScenarioCalls
    /\ r_a.checks /\ ~r_b.checks
    /\ r_a.block.state[BOB] = 94

RECURSIVE LogTxs(_, _)
\* the transactions of the log whose outcome is one of outcomes, in order
LogTxs(log, outcomes) ==
    IF log = << >> THEN << >>
    ELSE (IF Head(log).outcome \in outcomes THEN <<Head(log).tx>>
          ELSE << >>) \o LogTxs(Tail(log), outcomes)

\* the entry of the transaction decoded last
LastEntry == d_log[Len(d_log)]
\* the last step ran the loop body on a decoded transaction
Looped == d_op = "apply" /\ d_log # << >>
\* the lists of the round are those of the block under assembly
InRound == d_pc # "round"
\* no call before entry j returned GasLimitReached
NotFullBefore(j) ==
    \A i \in 1 .. j - 1 : d_log[i].outcome \notin {"GasLimitReached", "Skipped"}
\* tx is valid against the ledger of b and its gas fits in b
ValidAndFits(b, tx) ==
    /\ b.gas_used + gas(tx) <= b.gas_limit
    /\ tx.type = "Transfer" => SenderCanPay(b.state, tx)

\* ------------------------------------------------------------------ C21
\* C21: once try_apply_tx has returned GasLimitReached for a block it is not
\* called on that block again: every later transaction of the round, of any
\* collection and whatever its gas, goes to gas_overload_txs and the block
\* does not change.
C21_NoCallAfterFull ==
    /\ \A i, j \in 1 .. Len(d_log) :
         (i < j /\ d_log[i].outcome = "GasLimitReached")
           => d_log[j].outcome = "Skipped"
    /\ (Looped /\ LastEntry.outcome = "Skipped") => current_block = d_pre
    /\ InRound =>
         gas_overload_txs = LogTxs(d_log, {"GasLimitReached", "Skipped"})

C21_Witness ==
    /\ Looped /\ LastEntry.outcome = "Skipped"
    /\ ValidAndFits(current_block, LastEntry.tx)
    /\ \E i \in 1 .. Len(d_log) - 1 :
         /\ d_log[i].outcome = "GasLimitReached"
         /\ d_log[i].cid # LastEntry.cid

\* ------------------------------------------------------------------ C22
\* C22: an InvalidTransaction rejection does not mark the block full: until
\* a call returns GasLimitReached every transaction is passed to
\* try_apply_tx, and after an invalid one a valid transaction that fits is
\* accepted.
C22_InvalidNotFull ==
    /\ \A j \in 1 .. Len(d_log) :
         NotFullBefore(j) => d_log[j].outcome # "Skipped"
    /\ (/\ Looped
        /\ NotFullBefore(Len(d_log))
        /\ \E i \in 1 .. Len(d_log) - 1 :
             d_log[i].outcome = "InvalidTransaction"
        /\ ValidAndFits(d_pre, LastEntry.tx))
         => (/\ LastEntry.outcome = "Ok"
             /\ current_block.transactions
                  = Append(d_pre.transactions, LastEntry.tx))

\* ------------------------------------------------------------------ C23
\* C23: at every point of a block's assembly its transactions are exactly
\* the transactions attempted so far for which try_apply_tx returned Ok, in
\* the order in which they were attempted.
C23_ArrivalOrder ==
    current_block.transactions = LogTxs(d_log, {"Ok"})

C23_Witness ==
    /\ Len(d_log) = 3
    /\ d_log[1].outcome = "Ok"
    /\ d_log[2].outcome = "InvalidTransaction"
    /\ d_log[3].outcome = "Ok"
    /\ d_log[1].tx # d_log[3].tx
    /\ d_log[1].cid # d_log[3].cid

\* ------------------------------------------------------------------ C24
\* C24: every transaction decoded for a block is in exactly one of the
\* block's transactions, gas_overload_txs and failed_txs.
C24_ExactlyOneOutcome ==
    InRound =>
      /\ \A i \in 1 .. Len(d_log) :
           d_log[i].outcome
             \in {"Ok", "GasLimitReached", "Skipped", "InvalidTransaction"}
      /\ Len(current_block.transactions) + Len(gas_overload_txs)
           + Len(failed_txs) = Len(d_log)
      /\ failed_txs = LogTxs(d_log, {"InvalidTransaction"})
      /\ Len(gas_overload_txs)
           = Len(LogTxs(d_log, {"GasLimitReached", "Skipped"}))
      /\ Len(current_block.transactions) = Len(LogTxs(d_log, {"Ok"}))

C31_OneBlockPerRound ==
    /\ d_op = "start" => current_block.number = 1
    /\ current_block.number * RoundsPerBlock = round + RoundsPerBlock
    /\ current_block.gas_limit = BlockGasLimit
    /\ d_op = "finish_round" =>
         /\ current_block.number = d_pre.number + 1
         /\ current_block.state = d_pre.state
         /\ current_block.transactions = << >>
         /\ current_block.gas_used = 0
         /\ current_block.gas_limit = d_pre.gas_limit
    /\ (InRound /\ d_log = << >>) =>
         /\ ~block_full
         /\ current_block.gas_used = 0
         /\ current_block.transactions = << >>

C31_Witness ==
    /\ d_op = "read_causal"
    /\ current_block.number = 2
    /\ DOMAIN current_block.state # {}
    /\ d_rejected # {}
    /\ ~block_full

\* ------------------------------------------------------------------ C34
\* C34: as the serialisation test asserts, serialize of Mint{to:1,
\* amount:100, gas:TX_MINT_GAS} is exactly the 13 bytes 00 00000001
\* 0000000000000064 and serialize of Transfer{from:1, to:2, amount:99,
\* gas:TX_TRANSFER_GAS} is exactly the 17 bytes 01 00000001 00000002
\* 0000000000000063: neither encoding has a gas field.
C34_TestEncodings ==
    c_op = "serialize" =>
      LET tx == c_items[Len(c_items)]
      IN  /\ tx = TestMint =>
               Encoded = <<0, 0, 0, 0, 1, 0, 0, 0, 0, 0, 0, 0, 100>>
          /\ tx = TestTransfer =>
               Encoded = <<1, 0, 0, 0, 1, 0, 0, 0, 2,
                           0, 0, 0, 0, 0, 0, 0, 99>>

\* the bytes serialize writes for the two transactions of the test
C34_ActualEncodings ==
    c_op = "serialize" =>
      LET tx == c_items[Len(c_items)]
      IN  /\ tx = TestMint =>
               Encoded = <<0, 0, 0, 0, 1, 0, 0, 0, 0, 0, 0, 0, 100,
                           0, 0, 0, 2>>
          /\ tx = TestTransfer =>
               Encoded = <<1, 0, 0, 0, 1, 0, 0, 0, 2,
                           0, 0, 0, 0, 0, 0, 0, 99, 0, 0, 0, 2>>

\* the Transfer of the test was serialized
C34_TransferSerialized ==
    /\ c_op = "serialize"
    /\ c_items[Len(c_items)] = TestTransfer

\* ------------------------------------------ vocabulary of the batch claims
\* create_next_from_txn was called and returned
BatchReturned == b_op = "create" /\ b_out.status = "ok"

\* the State a block of the batch engine refers to
BatchState(b) == b_heap[b.final_state]

\* the fixed costs of a list of transactions, added up
RECURSIVE Cost(_)
Cost(txs) ==
    IF txs = << >> THEN 0 ELSE gas_cost(Head(txs)) + Cost(Tail(txs))

\* the list is made of all of a and all of r, each in its own order
RECURSIVE IsMerge(_, _, _)
IsMerge(list, a, r) ==
    IF list = << >> THEN a = << >> /\ r = << >>
    ELSE \/ /\ a # << >>
            /\ Head(a) = Head(list)
            /\ IsMerge(Tail(list), Tail(a), r)
         \/ /\ r # << >>
            /\ Head(r) = Head(list)
            /\ IsMerge(Tail(list), a, Tail(r))

\* the transactions applied one after the other, whatever they cost: those
\* the ledger took, those it refused, and the ledger after them
RECURSIVE ByValidity(_, _)
ByValidity(st, txs) ==
    IF txs = << >> THEN st
    ELSE LET r == batch_apply_tx(st.balances, Head(txs), overflow_checks)
         IN  ByValidity(
               IF r.ret = "true"
               THEN [st EXCEPT !.balances = r.balances,
                               !.accepted = Append(@, Head(txs))]
               ELSE [st EXCEPT !.rejected = Append(@, Head(txs))],
               Tail(txs))

Prefix(k) ==
    ByValidity([balances |-> b_pre.final_state, accepted |-> << >>,
                rejected |-> << >>], SubSeq(b_txs, 1, k))

\* every one of the first k transactions fitted when its turn came
AllFit(k) ==
    \A j \in 1 .. k :
       Cost(Prefix(j - 1).accepted) + gas_cost(b_txs[j]) <= BLOCK_GAS_LIMIT

\* the transaction after the first k is the first that did not fit
StoppedAfter(k) ==
    /\ k < Len(b_txs)
    /\ AllFit(k)
    /\ Cost(Prefix(k).accepted) + gas_cost(b_txs[k + 1]) > BLOCK_GAS_LIMIT

\* ------------------------------------------------------------------ C32
\* C32: create_next_from_txn(txs) partitions its input: every transaction
\* of the input is exactly once in the new block's transactions or in the
\* rejected list returned, each list in the order of the input; the new
\* block's number is the parent's plus one, its final state is the parent's
\* final state with the accepted transactions applied in order, and the
\* parent is unchanged.
C32_Partition ==
    BatchReturned =>
      /\ IsMerge(b_txs, b_out.block.transactions, b_out.rejected_txs)
      /\ b_out.block.number = b_pre.number + 1
      /\ LET a == ByValidity([balances |-> b_pre.final_state,
                              accepted |-> << >>, rejected |-> << >>],
                             b_out.block.transactions)
         IN  /\ a.rejected = << >>
             /\ BatchState(b_out.block) = a.balances
      /\ [b_parent EXCEPT !.final_state = b_heap[@]] = b_pre

\* a parent that is not genesis and holds a balance; the call accepted the
\* first and the last transaction and rejected one between them
C32_Witness ==
    /\ BatchReturned
    /\ b_pre.number = 1
    /\ DOMAIN b_pre.final_state # {}
    /\ Len(b_out.block.transactions) >= 2
    /\ b_out.rejected_txs # << >>
    /\ b_txs[1] = b_out.block.transactions[1]
    /\ Len(b_txs) =
         Len(b_out.block.transactions) + Len(b_out.rejected_txs)
    /\ BatchState(b_out.block) # b_pre.final_state
    /\ b_txs[Len(b_txs)]
         = b_out.block.transactions[Len(b_out.block.transactions)]

\* ------------------------------------------------------------------ C33
\* C33: with the costs Mint 5, Transfer 2 and the limit 20 the accepted
\* transactions never cost more than 20 in total; the first transaction
\* that would take the total over the limit stops the processing: it and
\* all after it are returned as rejected and are not applied; a transaction
\* rejected as invalid before that adds no cost and does not stop the
\* processing.
C33_GasBound ==
    BatchReturned =>
      /\ Cost(b_out.block.transactions) <= BLOCK_GAS_LIMIT
      /\ \E k \in 0 .. Len(b_txs) :
           /\ AllFit(k)
           /\ k < Len(b_txs) => StoppedAfter(k)
           /\ b_out.block.transactions = Prefix(k).accepted
           /\ b_out.rejected_txs
                = Prefix(k).rejected \o SubSeq(b_txs, k + 1, Len(b_txs))
           /\ BatchState(b_out.block) = Prefix(k).balances

\* an invalid transaction was rejected and the processing went on; a later
\* transaction did not fit; the last transaction came after that one, is
\* valid and would fit, and was returned as rejected
C33_Witness ==
    /\ BatchReturned
    /\ \E k \in 1 .. Len(b_txs) - 2 :
         /\ StoppedAfter(k)
         /\ Prefix(k).rejected # << >>
         /\ Len(Prefix(k).accepted) >= 2
    /\ LET last == b_txs[Len(b_txs)]
       IN  /\ Cost(b_out.block.transactions) + gas_cost(last)
                <= BLOCK_GAS_LIMIT
           /\ batch_apply_tx(BatchState(b_out.block), last,
                             overflow_checks).ret = "true"
           /\ b_out.rejected_txs[Len(b_out.rejected_txs)] = last

====
